---- MODULE Spec2Model ----
(***************************************************************************)
(* Order-processing workflow of three Flask services: the Order Service    *)
(* (order-service/app.py) calls the User Service and the Product Service   *)
(* (product-service/app.py) over HTTP.  Every request runs on its own      *)
(* thread with its own database session; a handler's database statements   *)
(* and the remote calls it makes are separate atomic steps.                *)
(*                                                                         *)
(* A remote call fails when the service is not reached (net_unreachable),  *)
(* when the service answers non-200, or when the answer does not arrive    *)
(* in time although the service has finished (net_timeout).  Database      *)
(* commits succeed.  A request body that is empty ({} or null) is          *)
(* body = FALSE.  Prices are whole numbers.                                *)
(***************************************************************************)
EXTENDS Integers, Sequences, FiniteSets, TLC

(* ------------------------------ bounds -------------------------------- *)
InitStock == 3          \* stock_quantity of product "p1" at start
MaxQty    == 2          \* largest quantity a request asks for
MaxOrders == 2          \* order rows ever created
MaxServed == 3          \* requests ever started

Threads    == {"t1", "t2"}            \* concurrently served requests
ProductIds == {"p1", "p2"}            \* "p2" has no row at start
UserIds    == {"u1"}                  \* users the User Service holds at start
OrderIds   == 1 .. MaxOrders
UnitPrice  == 5                       \* price of "p1"

(* ---------------------- JSON values and Python ------------------------ *)
\* a JSON value: an integer, a number with a fraction (n + 1/2), a numeric
\* string, any other string, or null
JInt(n) == [t |-> "int", v |-> n]
JFloat(n) == [t |-> "float", v |-> n]
JStr(n) == [t |-> "str", v |-> n]
JBad    == [t |-> "bad", v |-> 0]
JNone   == [t |-> "none", v |-> 0]

\* Python truthiness of a JSON value (`not x`)
Truthy(j) == CASE j.t = "int"  -> j.v # 0
               [] j.t = "float" -> TRUE
               [] j.t = "str"  -> TRUE
               [] j.t = "bad"  -> TRUE
               [] OTHER        -> FALSE

\* Python int(x): [ok, v]; ok = FALSE stands for ValueError / TypeError;
\* a number with a fraction is truncated towards zero
PyInt(j) == CASE j.t = "int" -> [ok |-> TRUE, v |-> j.v]
              [] j.t = "float" -> [ok |-> TRUE, v |-> IF j.v >= 0 THEN j.v ELSE j.v + 1]
              [] j.t = "str" -> [ok |-> TRUE, v |-> j.v]
              [] OTHER       -> [ok |-> FALSE, v |-> 0]

(* ------------------------------- state -------------------------------- *)
VARIABLES
    users,      \* users table of the User Service: the ids it holds
    products,   \* products table: id -> [stock_quantity, price]
    orders,     \* orders table: id -> [user_id, product_id, quantity, total_price, status]
                \* and, kept for the record only, `restored`: the number of
                \* restore calls for the order that have returned True
    nextId,     \* next fresh order id (uuid4)
    req,        \* per thread: the request it serves and its position
    served      \* number of requests started

vars == <<users, products, orders, nextId, req, served>>

\* a PATCH .../stock call: the request, what update_stock read (seen) and
\* computed (new), whether it committed (applied), the status the caller got
NoCall == [phase |-> "none", pid |-> "", body |-> JNone, seen |-> 0, new |-> 0,
           status |-> 0, applied |-> FALSE]

\* the product dict of a request that has looked no product up
NoProduct == [stock_quantity |-> 0, price |-> 0]

\* lookup: what GET /users/<id> gave; echo: the id the error response carries;
\* db: the commit that raised ("insert", "delete"), if one did
Idle == [pc |-> "idle", op |-> "none", data |-> <<>>, oid |-> 0, seen |-> "",
         snap |-> NoProduct, call |-> NoCall, code |-> 0, lookup |-> "", echo |-> "",
         db |-> "",
         nUser |-> 0, nProd |-> 0, nAdj |-> 0]

Init ==
    /\ users = UserIds
    /\ products = [p \in {"p1"} |-> [stock_quantity |-> InitStock, price |-> UnitPrice]]
    /\ orders = <<>>
    /\ nextId = 1
    /\ req = [r \in Threads |-> Idle]
    /\ served = 0

Free(r) == req[r].pc \in {"idle", "done"} /\ served < MaxServed

\* the handler returns; a remote call it was waiting for is over
Return(r, code) ==
    [req[r] EXCEPT !.pc = "done", !.code = code,
                   !.call.phase = IF @ = "resp" THEN "over" ELSE @]

(* ------------------- Product Service: update_stock -------------------- *)
\* a PATCH /products/<pid>/stock request on the wire
StockCall(pid, body) ==
    [phase |-> "sent", pid |-> pid, body |-> body, seen |-> 0, new |-> 0,
     status |-> 0, applied |-> FALSE]

\* the handler returns: only the status travels back
Respond(c, status) ==
    [c EXCEPT !.phase = "resp", !.status = status, !.seen = 0, !.new = 0]

\* update_stock_check with the stock test written as new_quantity <= 0
update_stock_check_strict(c) ==
    IF c.pid \notin DOMAIN products THEN Respond(c, 404)
    ELSE IF c.body.t = "none" THEN Respond(c, 400)
    ELSE IF ~PyInt(c.body).ok THEN Respond(c, 400)
    ELSE LET stock_quantity == products[c.pid].stock_quantity
             new_quantity == stock_quantity + PyInt(c.body).v
             d == [c EXCEPT !.seen = stock_quantity]
         IN  IF new_quantity <= 0 THEN Respond(d, 400)
             ELSE [d EXCEPT !.phase = "write", !.new = new_quantity]

\* update_stock, from the product lookup to the negative-stock check:
\* the response it returns early, or the new_quantity it goes on to write
update_stock_check(c) ==
    IF c.pid \notin DOMAIN products THEN Respond(c, 404)
    ELSE IF c.body.t = "none" THEN Respond(c, 400)
    ELSE IF ~PyInt(c.body).ok THEN Respond(c, 400)
    ELSE LET stock_quantity == products[c.pid].stock_quantity
             new_quantity == stock_quantity + PyInt(c.body).v
             d == [c EXCEPT !.seen = stock_quantity]
         IN  IF new_quantity < 0 THEN Respond(d, 400)
             ELSE [d EXCEPT !.phase = "write", !.new = new_quantity]

\* the handler's state after a step; a client that called update_stock
\* directly has its response as soon as the handler returns
Handled(r, c) ==
    IF req[r].op = "update_stock" /\ c.phase = "resp"
    THEN [req[r] EXCEPT !.call = [c EXCEPT !.phase = "over"], !.pc = "done",
                        !.code = c.status]
    ELSE [req[r] EXCEPT !.call = c]

\* the handler reads the product row and decides
update_stock_read(r) ==
    /\ req[r].call.phase = "sent"
    /\ req' = [req EXCEPT ![r] = Handled(r, update_stock_check(req[r].call))]
    /\ UNCHANGED <<users, products, orders, nextId, served>>

\* the handler writes new_quantity and commits
update_stock_write(r) ==
    LET c == req[r].call IN
    /\ c.phase = "write"
    /\ IF c.pid \in DOMAIN products
       THEN /\ products' = [products EXCEPT ![c.pid].stock_quantity = c.new]
            /\ req' = [req EXCEPT ![r] = Handled(r, [Respond(c, 200) EXCEPT !.applied = TRUE])]
       ELSE /\ req' = [req EXCEPT ![r] = Handled(r, Respond(c, 500))]
            /\ UNCHANGED products
    /\ UNCHANGED <<users, orders, nextId, served>>

(* ------------------------------ network ------------------------------- *)
\* requests.patch raises: the Product Service was never reached
net_unreachable(r) ==
    /\ req[r].call.phase = "sent"
    /\ req[r].op \in {"create_order", "update_order", "delete_order"}
    /\ req' = [req EXCEPT ![r].call = Respond(req[r].call, 0)]
    /\ UNCHANGED <<users, products, orders, nextId, served>>

\* net_timeout with the caller sending the same request again
net_timeout_retry(r) ==
    /\ req[r].call.phase = "resp"
    /\ req[r].call.status # 0
    /\ req[r].op \in {"create_order", "update_order", "delete_order"}
    /\ req' = [req EXCEPT ![r].call = StockCall(req[r].call.pid, req[r].call.body),
                          ![r].nAdj = @ + 1]
    /\ UNCHANGED <<users, products, orders, nextId, served>>

\* requests.patch raises after REQUEST_TIMEOUT: the response never arrives
net_timeout(r) ==
    /\ req[r].call.phase = "resp"
    /\ req[r].call.status # 0
    /\ req[r].op \in {"create_order", "update_order", "delete_order"}
    /\ req' = [req EXCEPT ![r].call.status = 0]
    /\ UNCHANGED <<users, products, orders, nextId, served>>

(* --------------------- Order Service: helpers ------------------------- *)
\* GET /users/<id>: the user, or None when absent or unreachable
validate_user(user_id, reachable) == reachable /\ user_id \in users

\* GET /products/<id>: [found, product]
validate_product(product_id, reachable) ==
    IF reachable /\ product_id \in DOMAIN products
    THEN [found |-> TRUE, product |-> products[product_id]]
    ELSE [found |-> FALSE, product |-> [stock_quantity |-> 0, price |-> 0]]

reduce_product_stock(product_id, quantity) == StockCall(product_id, JInt(0 - quantity))

restore_product_stock(product_id, quantity) == StockCall(product_id, JInt(quantity))

\* the boolean both helpers return once the call is over
CallDone(r) == req[r].call.phase = "resp"
CallTrue(r) == req[r].call.status = 200

\* GET /orders/<id>
get_order(order_id) == IF order_id \in DOMAIN orders THEN 200 ELSE 404

(* ------------------- Order Service: create_order ---------------------- *)
CreateInputs ==
    {[body |-> FALSE, user_id |-> "", product_id |-> "", quantity |-> JNone]}
    \cup {[body |-> TRUE, user_id |-> u, product_id |-> "p1", quantity |-> JInt(1)]
            : u \in {"", "u0"}}
    \cup {[body |-> TRUE, user_id |-> "u1", product_id |-> p, quantity |-> JInt(1)]
            : p \in {"", "p2"}}
    \cup {[body |-> TRUE, user_id |-> "u1", product_id |-> "p1", quantity |-> q]
            : q \in {JNone, JBad, JInt(0), JInt(-1)} \cup {JInt(n) : n \in 1 .. MaxQty}}

\* bodies whose quantity is a number with a fraction: 0.5, 1.5, ...
FractionInputs ==
    {[body |-> TRUE, user_id |-> "u1", product_id |-> "p1", quantity |-> JFloat(n)]
       : n \in 0 .. MaxQty - 1}

\* input validation: 0 when the input passes, else the status returned
create_order_validate(data) ==
    IF ~data.body THEN 400
    ELSE IF data.user_id = "" THEN 400
    ELSE IF data.product_id = "" THEN 400
    ELSE IF ~Truthy(data.quantity) THEN 400
    ELSE IF ~PyInt(data.quantity).ok THEN 400
    ELSE IF PyInt(data.quantity).v <= 0 THEN 400
    ELSE 0

Quantity(r) == PyInt(req[r].data.quantity).v

\* create_order requests that may still write a row
Creating == {r \in Threads : req[r].pc \in {"co_user", "co_product", "co_persist"}}

\* create_order_begin going to the product lookup at once
create_order_begin_skips_user(r, data) ==
    /\ Free(r)
    /\ nextId + Cardinality(Creating) <= MaxOrders
    /\ LET code == create_order_validate(data)
           start == [Idle EXCEPT !.op = "create_order", !.data = data] IN
       req' = [req EXCEPT ![r] =
                 IF code # 0 THEN [start EXCEPT !.pc = "done", !.code = code]
                 ELSE [start EXCEPT !.pc = "co_product"]]
    /\ served' = served + 1
    /\ UNCHANGED <<users, products, orders, nextId>>

\* POST /orders arrives with body `data`: the validation
create_order_begin(r, data) ==
    /\ Free(r)
    /\ nextId + Cardinality(Creating) <= MaxOrders
    /\ LET code == create_order_validate(data)
           start == [Idle EXCEPT !.op = "create_order", !.data = data] IN
       req' = [req EXCEPT ![r] =
                 IF code # 0 THEN [start EXCEPT !.pc = "done", !.code = code]
                 ELSE [start EXCEPT !.pc = "co_user"]]
    /\ served' = served + 1
    /\ UNCHANGED <<users, products, orders, nextId>>

create_order(r) == \E data \in CreateInputs : create_order_begin(r, data)

create_order_fraction(r) == \E data \in FractionInputs : create_order_begin(r, data)

\* what the GET of validate_user met
UserLookup(user_id, reachable) ==
    IF ~reachable THEN "unreachable" ELSE IF user_id \in users THEN "200" ELSE "404"

\* create_order_user with a lookup that removes the user it finds
create_order_user_deletes(r) ==
    /\ req[r].pc = "co_user"
    /\ \E reachable \in BOOLEAN :
         LET q == [req[r] EXCEPT !.nUser = @ + 1,
                     !.lookup = UserLookup(req[r].data.user_id, reachable)] IN
         /\ req' = [req EXCEPT ![r] =
                      IF validate_user(req[r].data.user_id, reachable)
                      THEN [q EXCEPT !.pc = "co_product"]
                      ELSE [q EXCEPT !.pc = "done", !.code = 404,
                                     !.echo = req[r].data.user_id]]
         /\ users' = IF reachable THEN users \ {req[r].data.user_id} ELSE users
    /\ UNCHANGED <<products, orders, nextId, served>>

\* create_order_user going on when the User Service could not be reached
create_order_user_lenient(r) ==
    /\ req[r].pc = "co_user"
    /\ \E reachable \in BOOLEAN :
         LET q == [req[r] EXCEPT !.nUser = @ + 1,
                     !.lookup = UserLookup(req[r].data.user_id, reachable)] IN
         req' = [req EXCEPT ![r] =
                   IF validate_user(req[r].data.user_id, reachable) \/ ~reachable
                   THEN [q EXCEPT !.pc = "co_product"]
                   ELSE [q EXCEPT !.pc = "done", !.code = 404,
                                  !.echo = req[r].data.user_id]]
    /\ UNCHANGED <<users, products, orders, nextId, served>>

\* STEP 1: validate user
create_order_user(r) ==
    /\ req[r].pc = "co_user"
    /\ \E reachable \in BOOLEAN :
         LET q == [req[r] EXCEPT !.nUser = @ + 1,
                     !.lookup = UserLookup(req[r].data.user_id, reachable)] IN
         req' = [req EXCEPT ![r] =
                   IF validate_user(req[r].data.user_id, reachable)
                   THEN [q EXCEPT !.pc = "co_product"]
                   ELSE [q EXCEPT !.pc = "done", !.code = 404,
                                  !.echo = req[r].data.user_id]]
    /\ UNCHANGED <<users, products, orders, nextId, served>>

\* create_order_product without STEP 3, the check of the stock
create_order_product_unchecked(r) ==
    /\ req[r].pc = "co_product"
    /\ \E reachable \in BOOLEAN :
         LET res == validate_product(req[r].data.product_id, reachable)
             q == [req[r] EXCEPT !.nProd = @ + 1] IN
         req' = [req EXCEPT ![r] =
                   IF ~res.found THEN [q EXCEPT !.pc = "done", !.code = 404,
                                                !.echo = req[r].data.product_id]
                   ELSE [q EXCEPT !.pc = "co_persist", !.snap = res.product]]
    /\ UNCHANGED <<users, products, orders, nextId, served>>

\* STEP 2 and 3: validate product, check the stock of the snapshot
create_order_product(r) ==
    /\ req[r].pc = "co_product"
    /\ \E reachable \in BOOLEAN :
         LET res == validate_product(req[r].data.product_id, reachable)
             q == [req[r] EXCEPT !.nProd = @ + 1] IN
         req' = [req EXCEPT ![r] =
                   IF ~res.found THEN [q EXCEPT !.pc = "done", !.code = 404,
                                                !.echo = req[r].data.product_id]
                   ELSE IF res.product.stock_quantity < Quantity(r)
                        THEN [q EXCEPT !.pc = "done", !.code = 400, !.snap = res.product]
                        ELSE [q EXCEPT !.pc = "co_persist", !.snap = res.product]]
    /\ UNCHANGED <<users, products, orders, nextId, served>>

\* Prices are counted in hundredths, the unit of a Numeric(10, 2) column; a
\* float is counted in tenths of that unit.  float(price) * quantity is the
\* exact product plus a rounding error e of less than half a hundredth.
FloatErr == -4 .. 4
PyFloatMul(price, quantity, e) == price * quantity * 10 + e

\* a Numeric(10, 2) column cutting the fraction of the value it is given
NumericTruncating(x) == x \div 10

\* a Numeric(10, 2) column rounds the value it is given to hundredths
Numeric(x) == (x + 5) \div 10

\* STEP 4: the total price of the new order, as the row stores it
total_price(product, quantity, e) == Numeric(PyFloatMul(product.price, quantity, e))

\* STEP 5: the order row is committed; STEP 6 sends the decrement
create_order_persist(r) ==
    /\ req[r].pc = "co_persist"
    /\ \E e \in FloatErr :
         orders' = orders @@ (nextId :>
           [user_id |-> req[r].data.user_id, product_id |-> req[r].data.product_id,
            quantity |-> Quantity(r),
            total_price |-> total_price(req[r].snap, Quantity(r), e),
            status |-> "pending", restored |-> 0])
    /\ nextId' = nextId + 1
    /\ req' = [req EXCEPT ![r].pc = "co_reduce", ![r].oid = nextId, ![r].nAdj = @ + 1,
                          ![r].call = reduce_product_stock(req[r].data.product_id, Quantity(r))]
    /\ UNCHANGED <<users, products, served>>

Without(tbl, id) == [k \in DOMAIN tbl \ {id} |-> tbl[k]]

\* create_order_reduce without the rollback of the order
create_order_reduce_uncompensated(r) ==
    /\ req[r].pc = "co_reduce"
    /\ CallDone(r)
    /\ orders' = orders
    /\ req' = [req EXCEPT ![r] =
                 IF CallTrue(r) /\ req[r].oid \in DOMAIN orders THEN Return(r, 201)
                 ELSE Return(r, 500)]
    /\ UNCHANGED <<users, products, nextId, served>>

\* create_order_reduce waiting for a decrement that succeeds
create_order_reduce_waits(r) ==
    /\ req[r].pc = "co_reduce"
    /\ CallDone(r)
    /\ CallTrue(r)
    /\ orders' = orders
    /\ req' = [req EXCEPT ![r] =
                 IF req[r].oid \in DOMAIN orders THEN Return(r, 201)
                 ELSE Return(r, 500)]
    /\ UNCHANGED <<users, products, nextId, served>>

\* STEP 6, on the answer: compensate when the decrement failed;
\* order.to_dict() reloads the row and raises when it is gone
create_order_reduce(r) ==
    /\ req[r].pc = "co_reduce"
    /\ CallDone(r)
    /\ IF ~CallTrue(r)
       THEN /\ orders' = Without(orders, req[r].oid)
            /\ req' = [req EXCEPT ![r] = Return(r, 500)]
       ELSE /\ orders' = orders
            /\ req' = [req EXCEPT ![r] =
                         IF req[r].oid \in DOMAIN orders THEN Return(r, 201)
                         ELSE Return(r, 500)]
    /\ UNCHANGED <<users, products, nextId, served>>

(* ------------------- Order Service: update_order ---------------------- *)
valid_statuses == {"pending", "confirmed", "shipped", "delivered", "cancelled"}

\* request bodies: no status field ("" stands for it), a status, a bad one
UpdateInputs == [status : valid_statuses \cup {"", "refunded"}]

\* update_order writing the status without restoring the stock
update_order_skips_restore(r) ==
    /\ Free(r)
    /\ \E order_id \in OrderIds, data \in UpdateInputs :
         LET start == [Idle EXCEPT !.op = "update_order", !.data = data, !.oid = order_id] IN
         req' = [req EXCEPT ![r] =
           IF order_id \notin DOMAIN orders THEN [start EXCEPT !.pc = "done", !.code = 404]
           ELSE IF data.status = "" THEN [start EXCEPT !.pc = "done", !.code = 400]
           ELSE IF data.status \notin valid_statuses
                THEN [start EXCEPT !.pc = "done", !.code = 400]
           ELSE [start EXCEPT !.pc = "uo_commit", !.seen = orders[order_id].status]]
    /\ served' = served + 1
    /\ UNCHANGED <<users, products, orders, nextId>>

\* update_order without the test of the status value
update_order_unvalidated(r) ==
    /\ Free(r)
    /\ \E order_id \in OrderIds, data \in UpdateInputs :
         LET start == [Idle EXCEPT !.op = "update_order", !.data = data, !.oid = order_id] IN
         req' = [req EXCEPT ![r] =
           IF order_id \notin DOMAIN orders THEN [start EXCEPT !.pc = "done", !.code = 404]
           ELSE IF data.status = "" THEN [start EXCEPT !.pc = "done", !.code = 400]
           ELSE LET order == orders[order_id] IN
                IF data.status = "cancelled" /\ order.status # "cancelled"
                THEN [start EXCEPT !.pc = "uo_restore", !.seen = order.status, !.nAdj = 1,
                        !.call = restore_product_stock(order.product_id, order.quantity)]
                ELSE [start EXCEPT !.pc = "uo_commit", !.seen = order.status]]
    /\ served' = served + 1
    /\ UNCHANGED <<users, products, orders, nextId>>

\* update_order restoring the stock on every request for 'cancelled'
update_order_always_restores(r) ==
    /\ Free(r)
    /\ \E order_id \in OrderIds, data \in UpdateInputs :
         LET start == [Idle EXCEPT !.op = "update_order", !.data = data, !.oid = order_id] IN
         req' = [req EXCEPT ![r] =
           IF order_id \notin DOMAIN orders THEN [start EXCEPT !.pc = "done", !.code = 404]
           ELSE IF data.status = "" THEN [start EXCEPT !.pc = "done", !.code = 400]
           ELSE IF data.status \notin valid_statuses
                THEN [start EXCEPT !.pc = "done", !.code = 400]
           ELSE LET order == orders[order_id] IN
                IF data.status = "cancelled"
                THEN [start EXCEPT !.pc = "uo_restore", !.seen = order.status, !.nAdj = 1,
                        !.call = restore_product_stock(order.product_id, order.quantity)]
                ELSE [start EXCEPT !.pc = "uo_commit", !.seen = order.status]]
    /\ served' = served + 1
    /\ UNCHANGED <<users, products, orders, nextId>>

\* the statement that reads the order, and the checks up to the restore
update_order(r) ==
    /\ Free(r)
    /\ \E order_id \in OrderIds, data \in UpdateInputs :
         LET start == [Idle EXCEPT !.op = "update_order", !.data = data, !.oid = order_id] IN
         req' = [req EXCEPT ![r] =
           IF order_id \notin DOMAIN orders THEN [start EXCEPT !.pc = "done", !.code = 404]
           ELSE IF data.status = "" THEN [start EXCEPT !.pc = "done", !.code = 400]
           ELSE IF data.status \notin valid_statuses
                THEN [start EXCEPT !.pc = "done", !.code = 400]
           ELSE LET order == orders[order_id] IN
                IF data.status = "cancelled" /\ order.status # "cancelled"
                THEN [start EXCEPT !.pc = "uo_restore", !.seen = order.status, !.nAdj = 1,
                        !.call = restore_product_stock(order.product_id, order.quantity)]
                ELSE [start EXCEPT !.pc = "uo_commit", !.seen = order.status]]
    /\ served' = served + 1
    /\ UNCHANGED <<users, products, orders, nextId>>

\* update_order_commit with an UPDATE that is not restricted to the order
update_order_commit_all(r) ==
    /\ \/ req[r].pc = "uo_commit"
       \/ req[r].pc = "uo_restore" /\ CallDone(r) /\ CallTrue(r)
    /\ IF req[r].oid \in DOMAIN orders
       THEN /\ orders' = [id \in DOMAIN orders |->
                            [orders[id] EXCEPT !.status = req[r].data.status]]
            /\ req' = [req EXCEPT ![r] = Return(r, 200)]
       ELSE /\ orders' = orders
            /\ req' = [req EXCEPT ![r] = Return(r, 500)]
    /\ UNCHANGED <<users, products, nextId, served>>

\* order.status = new_status; commit; to_dict().  The UPDATE matches no row
\* when the order was deleted meanwhile, and the handler answers 500
update_order_commit(r) ==
    /\ \/ req[r].pc = "uo_commit"
       \/ req[r].pc = "uo_restore" /\ CallDone(r) /\ CallTrue(r)
    /\ IF req[r].oid \in DOMAIN orders
       THEN /\ orders' = [orders EXCEPT
                            ![req[r].oid].status = req[r].data.status,
                            ![req[r].oid].restored =
                                IF req[r].pc = "uo_restore" THEN @ + 1 ELSE @]
            /\ req' = [req EXCEPT ![r] = Return(r, 200)]
       ELSE /\ orders' = orders
            /\ req' = [req EXCEPT ![r] = Return(r, 500)]
    /\ UNCHANGED <<users, products, nextId, served>>

\* update_order going on to write the status after a failed restore
update_order_restore_ignored(r) ==
    /\ req[r].pc = "uo_restore"
    /\ CallDone(r)
    /\ ~CallTrue(r)
    /\ IF req[r].oid \in DOMAIN orders
       THEN /\ orders' = [orders EXCEPT ![req[r].oid].status = req[r].data.status]
            /\ req' = [req EXCEPT ![r] = Return(r, 200)]
       ELSE /\ orders' = orders
            /\ req' = [req EXCEPT ![r] = Return(r, 500)]
    /\ UNCHANGED <<users, products, nextId, served>>

\* the restore failed: 500, nothing written
update_order_restore_failed(r) ==
    /\ req[r].pc = "uo_restore"
    /\ CallDone(r)
    /\ ~CallTrue(r)
    /\ req' = [req EXCEPT ![r] = Return(r, 500)]
    /\ UNCHANGED <<users, products, orders, nextId, served>>

(* ----------------- Order Service: get_orders_by_user ------------------- *)
\* GET /orders/user/<user_id>: the user is looked up, then the user's orders
\* are read; 404 when validate_user gives None
get_orders_by_user(r) ==
    /\ Free(r)
    /\ \E user_id \in {"u0", "u1"}, reachable \in BOOLEAN :
         LET start == [Idle EXCEPT !.op = "get_orders_by_user", !.pc = "done",
                          !.data = [user_id |-> user_id], !.nUser = 1,
                          !.lookup = UserLookup(user_id, reachable)] IN
         req' = [req EXCEPT ![r] =
                   IF validate_user(user_id, reachable)
                   THEN [start EXCEPT !.code = 200]
                   ELSE [start EXCEPT !.code = 404]]
    /\ served' = served + 1
    /\ UNCHANGED <<users, products, orders, nextId>>

(* ------------------- Order Service: confirm_order --------------------- *)
\* confirm_order without the test of the current status
confirm_order_unchecked(r) ==
    /\ Free(r)
    /\ \E order_id \in OrderIds :
         LET start == [Idle EXCEPT !.op = "confirm_order", !.oid = order_id] IN
         req' = [req EXCEPT ![r] =
           IF order_id \notin DOMAIN orders THEN [start EXCEPT !.pc = "done", !.code = 404]
           ELSE [start EXCEPT !.pc = "cf_commit", !.seen = orders[order_id].status]]
    /\ served' = served + 1
    /\ UNCHANGED <<users, products, orders, nextId>>

confirm_order(r) ==
    /\ Free(r)
    /\ \E order_id \in OrderIds :
         LET start == [Idle EXCEPT !.op = "confirm_order", !.oid = order_id] IN
         req' = [req EXCEPT ![r] =
           IF order_id \notin DOMAIN orders THEN [start EXCEPT !.pc = "done", !.code = 404]
           ELSE IF orders[order_id].status # "pending"
                THEN [start EXCEPT !.pc = "done", !.code = 400,
                                   !.seen = orders[order_id].status]
           ELSE [start EXCEPT !.pc = "cf_commit", !.seen = "pending"]]
    /\ served' = served + 1
    /\ UNCHANGED <<users, products, orders, nextId>>

confirm_order_commit(r) ==
    /\ req[r].pc = "cf_commit"
    /\ IF req[r].oid \in DOMAIN orders
       THEN /\ orders' = [orders EXCEPT ![req[r].oid].status = "confirmed"]
            /\ req' = [req EXCEPT ![r] = Return(r, 200)]
       ELSE /\ orders' = orders
            /\ req' = [req EXCEPT ![r] = Return(r, 500)]
    /\ UNCHANGED <<users, products, nextId, served>>

(* ------------------- Order Service: delete_order ---------------------- *)
\* delete_order without the test of the status
delete_order_unchecked(r) ==
    /\ Free(r)
    /\ \E order_id \in OrderIds :
         LET start == [Idle EXCEPT !.op = "delete_order", !.oid = order_id] IN
         req' = [req EXCEPT ![r] =
           IF order_id \notin DOMAIN orders THEN [start EXCEPT !.pc = "done", !.code = 404]
           ELSE LET order == orders[order_id] IN
                IF order.status = "pending"
                THEN [start EXCEPT !.pc = "do_restore", !.seen = order.status, !.nAdj = 1,
                        !.call = restore_product_stock(order.product_id, order.quantity)]
                ELSE [start EXCEPT !.pc = "do_commit", !.seen = order.status]]
    /\ served' = served + 1
    /\ UNCHANGED <<users, products, orders, nextId>>

\* delete_order restoring the stock of a cancelled order as well
delete_order_restores_cancelled(r) ==
    /\ Free(r)
    /\ \E order_id \in OrderIds :
         LET start == [Idle EXCEPT !.op = "delete_order", !.oid = order_id] IN
         req' = [req EXCEPT ![r] =
           IF order_id \notin DOMAIN orders THEN [start EXCEPT !.pc = "done", !.code = 404]
           ELSE LET order == orders[order_id] IN
                IF order.status \notin {"pending", "cancelled"}
                THEN [start EXCEPT !.pc = "done", !.code = 400, !.seen = order.status]
                ELSE [start EXCEPT !.pc = "do_restore", !.seen = order.status, !.nAdj = 1,
                        !.call = restore_product_stock(order.product_id, order.quantity)]]
    /\ served' = served + 1
    /\ UNCHANGED <<users, products, orders, nextId>>

delete_order(r) ==
    /\ Free(r)
    /\ \E order_id \in OrderIds :
         LET start == [Idle EXCEPT !.op = "delete_order", !.oid = order_id] IN
         req' = [req EXCEPT ![r] =
           IF order_id \notin DOMAIN orders THEN [start EXCEPT !.pc = "done", !.code = 404]
           ELSE LET order == orders[order_id] IN
                IF order.status \notin {"pending", "cancelled"}
                THEN [start EXCEPT !.pc = "done", !.code = 400, !.seen = order.status]
                ELSE IF order.status = "pending"
                THEN [start EXCEPT !.pc = "do_restore", !.seen = order.status, !.nAdj = 1,
                        !.call = restore_product_stock(order.product_id, order.quantity)]
                ELSE [start EXCEPT !.pc = "do_commit", !.seen = order.status]]
    /\ served' = served + 1
    /\ UNCHANGED <<users, products, orders, nextId>>

\* db.session.delete(order); commit -- whatever the restore call returned
delete_order_commit(r) ==
    /\ \/ req[r].pc = "do_commit"
       \/ req[r].pc = "do_restore" /\ CallDone(r)
    /\ orders' = Without(orders, req[r].oid)
    /\ req' = [req EXCEPT ![r] = Return(r, 200)]
    /\ UNCHANGED <<users, products, nextId, served>>

(* --------------------------- specification ---------------------------- *)
Next ==
    \E r \in Threads :
        \/ create_order(r)
        \/ create_order_user(r)
        \/ create_order_product(r)
        \/ create_order_persist(r)
        \/ create_order_reduce(r)
        \/ update_order(r)
        \/ update_order_commit(r)
        \/ update_order_restore_failed(r)
        \/ confirm_order(r)
        \/ confirm_order_commit(r)
        \/ delete_order(r)
        \/ delete_order_commit(r)
        \/ update_stock_read(r)
        \/ update_stock_write(r)
        \/ net_unreachable(r)
        \/ net_timeout(r)

Spec == Init /\ [][Next]_vars

\* create_order alone, served concurrently, fractional quantities included
NextCreate ==
    \E r \in Threads :
        \/ create_order(r)
        \/ create_order_fraction(r)
        \/ create_order_user(r)
        \/ create_order_product(r)
        \/ create_order_persist(r)
        \/ create_order_reduce(r)
        \/ update_stock_read(r)
        \/ update_stock_write(r)
        \/ net_unreachable(r)
        \/ net_timeout(r)

SpecCreate == Init /\ [][NextCreate]_vars

\* the steps of a create_order that thread r is serving; the Product
\* Service answers and requests.patch gives up after REQUEST_TIMEOUT
create_order_run(r) ==
    \/ create_order_user(r)
    \/ create_order_product(r)
    \/ create_order_persist(r)
    \/ create_order_reduce(r)
    \/ update_stock_read(r)
    \/ update_stock_write(r)
    \/ net_unreachable(r)
    \/ net_timeout(r)

\* each request runs to completion on its own thread
FairCreate == SpecCreate /\ \A r \in Threads : WF_vars(create_order_run(r))

\* every operation of the Order Service that calls another service
NextFrame == Next \/ \E r \in Threads : get_orders_by_user(r)

SpecFrame == Init /\ [][NextFrame]_vars

(* ------------- one order, requests one after another ----------------- *)
\* the state after a create_order of one unit of "p1" has returned 201
InitPlaced ==
    /\ users = UserIds
    /\ products = [p \in {"p1"} |-> [stock_quantity |-> InitStock - 1, price |-> UnitPrice]]
    /\ orders = 1 :> [user_id |-> "u1", product_id |-> "p1", quantity |-> 1,
                      total_price |-> total_price([price |-> UnitPrice], 1, 0),
                      status |-> "pending", restored |-> 0]
    /\ nextId = 2
    /\ req = [r \in Threads |-> Idle]
    /\ served = 0

\* no request is being served
NoneInFlight == \A r \in Threads : req[r].pc \in {"idle", "done"}

\* a client that sends its next request when the last one has returned
update_order_next(r) == NoneInFlight /\ update_order(r)
confirm_order_next(r) == NoneInFlight /\ confirm_order(r)
delete_order_next(r) == NoneInFlight /\ delete_order(r)

NextSeq ==
    \E r \in Threads :
        \/ update_order_next(r)
        \/ update_order_commit(r)
        \/ update_order_restore_failed(r)
        \/ confirm_order_next(r)
        \/ confirm_order_commit(r)
        \/ delete_order_next(r)
        \/ delete_order_commit(r)
        \/ update_stock_read(r)
        \/ update_stock_write(r)
        \/ net_unreachable(r)
        \/ net_timeout(r)

SpecSeq == InitPlaced /\ [][NextSeq]_vars

(* ------------- create_order with database failures ------------------- *)
\* STEP 5, the commit of the new row raises: `except Exception` rolls the
\* insert back and answers 500
create_order_persist_except(r) ==
    /\ req[r].pc = "co_persist"
    /\ req' = [req EXCEPT ![r] = [Return(r, 500) EXCEPT !.db = "insert"]]
    /\ UNCHANGED <<users, products, orders, nextId, served>>

\* STEP 6, the commit of the compensating delete raises: `except Exception`
\* rolls the delete back and answers 500; the row committed in STEP 5 stays
create_order_reduce_except(r) ==
    /\ req[r].pc = "co_reduce"
    /\ CallDone(r)
    /\ ~CallTrue(r)
    /\ req[r].oid \in DOMAIN orders
    /\ req' = [req EXCEPT ![r] = [Return(r, 500) EXCEPT !.db = "delete"]]
    /\ UNCHANGED <<users, products, orders, nextId, served>>

NextDb ==
    \E r \in Threads :
        \/ create_order(r)
        \/ create_order_user(r)
        \/ create_order_product(r)
        \/ create_order_persist(r)
        \/ create_order_persist_except(r)
        \/ create_order_reduce(r)
        \/ create_order_reduce_except(r)
        \/ update_stock_read(r)
        \/ update_stock_write(r)
        \/ net_unreachable(r)
        \/ net_timeout(r)

SpecDb == Init /\ [][NextDb]_vars

(* ---------------- Product Service called directly --------------------- *)
JAbsent == [t |-> "absent", v |-> 0]

\* Python float(x), like int(x)
PyFloat(j) == PyInt(j)

\* quantity_change of a PATCH body; JAbsent: the field is missing
StockInputs == {JAbsent, JBad} \cup {JInt(d) : d \in (0 - MaxQty) .. MaxQty}

\* PATCH /products/<product_id>/stock arrives
update_stock(r) ==
    /\ Free(r)
    /\ \E product_id \in ProductIds, body \in StockInputs :
         req' = [req EXCEPT ![r] =
                   [Idle EXCEPT !.op = "update_stock", !.pc = "us_handle",
                                !.data = [product_id |-> product_id, quantity_change |-> body],
                                !.call = StockCall(product_id,
                                           IF body = JAbsent THEN JNone ELSE body)]]
    /\ served' = served + 1
    /\ UNCHANGED <<users, products, orders, nextId>>

\* name: "" missing, else the string; price, stock_quantity: JAbsent missing
ProductInputs ==
    {[body |-> FALSE, name |-> "", price |-> JAbsent, stock_quantity |-> JAbsent]}
    \cup {[body |-> TRUE, name |-> n, price |-> JInt(UnitPrice + 1), stock_quantity |-> JAbsent]
            : n \in {"", "ab"}}
    \cup {[body |-> TRUE, name |-> "abc", price |-> pr, stock_quantity |-> JAbsent]
            : pr \in {JAbsent, JBad, JInt(0)}}
    \cup {[body |-> TRUE, name |-> "abc", price |-> JInt(UnitPrice + 1), stock_quantity |-> st]
            : st \in {JAbsent, JBad, JInt(-1), JInt(MaxQty)}}
    \cup {[body |-> TRUE, name |-> "", price |-> JAbsent, stock_quantity |-> st]
            : st \in {JInt(-1), JInt(MaxQty)}}

\* create_product up to the float(price) check: 0 when the input passes
create_product_validate(data) ==
    IF ~data.body THEN 400
    ELSE IF data.name = "" THEN 400
    ELSE IF data.price = JAbsent \/ ~Truthy(data.price) THEN 400
    ELSE IF Len(data.name) < 3 THEN 400
    ELSE IF ~PyFloat(data.price).ok THEN 400
    ELSE IF PyFloat(data.price).v <= 0 THEN 400
    ELSE 0

\* int(data.get('stock_quantity', 0))
create_product_stock(data) ==
    IF data.stock_quantity = JAbsent THEN [ok |-> TRUE, v |-> 0]
    ELSE PyInt(data.stock_quantity)

\* POST /products
create_product(r) ==
    /\ Free(r)
    /\ \E id \in ProductIds \ DOMAIN products, data \in ProductInputs :
         LET code == create_product_validate(data)
             stock == create_product_stock(data)
             start == [Idle EXCEPT !.op = "create_product", !.pc = "done", !.data = data] IN
         IF code # 0
         THEN /\ req' = [req EXCEPT ![r] = [start EXCEPT !.code = code]]
              /\ UNCHANGED products
         ELSE IF ~stock.ok
         THEN /\ req' = [req EXCEPT ![r] = [start EXCEPT !.code = 500]]
              /\ UNCHANGED products
         ELSE /\ products' = products @@ (id :>
                     [stock_quantity |-> stock.v, price |-> PyFloat(data.price).v])
              /\ req' = [req EXCEPT ![r] = [start EXCEPT !.code = 201]]
    /\ served' = served + 1
    /\ UNCHANGED <<users, orders, nextId>>

\* update_product after the lookup: the status, and the row it commits
update_product_row(product, data) ==
    IF ~data.body \/ (data.name = "" /\ data.price = JAbsent /\ data.stock_quantity = JAbsent)
    THEN [code |-> 400, row |-> product]
    ELSE IF data.name # "" /\ Len(data.name) < 3 THEN [code |-> 400, row |-> product]
    ELSE IF data.price # JAbsent /\ ~PyFloat(data.price).ok THEN [code |-> 400, row |-> product]
    ELSE IF data.price # JAbsent /\ PyFloat(data.price).v <= 0 THEN [code |-> 400, row |-> product]
    ELSE IF data.stock_quantity # JAbsent /\ ~PyInt(data.stock_quantity).ok
         THEN [code |-> 500, row |-> product]
    ELSE [code |-> 200,
          row |-> [stock_quantity |-> IF data.stock_quantity = JAbsent
                                      THEN product.stock_quantity
                                      ELSE PyInt(data.stock_quantity).v,
                   price |-> IF data.price = JAbsent THEN product.price
                             ELSE PyFloat(data.price).v]]

\* PUT /products/<product_id>
update_product(r) ==
    /\ Free(r)
    /\ \E product_id \in ProductIds, data \in ProductInputs :
         LET start == [Idle EXCEPT !.op = "update_product", !.pc = "done",
                          !.data = data] IN
         IF product_id \notin DOMAIN products
         THEN /\ req' = [req EXCEPT ![r] = [start EXCEPT !.code = 404]]
              /\ UNCHANGED products
         ELSE LET res == update_product_row(products[product_id], data) IN
              /\ products' = [products EXCEPT ![product_id] = res.row]
              /\ req' = [req EXCEPT ![r] = [start EXCEPT !.code = res.code]]
    /\ served' = served + 1
    /\ UNCHANGED <<users, orders, nextId>>

\* concurrent PATCH /products/<id>/stock requests only
NextStock ==
    \E r \in Threads :
        \/ update_stock(r)
        \/ update_stock_read(r)
        \/ update_stock_write(r)

SpecStock == Init /\ [][NextStock]_vars

\* every operation of the Product Service that sets stock_quantity
NextCatalog ==
    \E r \in Threads :
        \/ create_product(r)
        \/ update_product(r)
        \/ update_stock(r)
        \/ update_stock_read(r)
        \/ update_stock_write(r)

SpecCatalog == Init /\ [][NextCatalog]_vars

(* ============================ properties ============================== *)
Done(r) == req[r].pc = "done"

\* no request is in flight
Quiescent == \A r \in Threads : req[r].pc \in {"idle", "done"}

\* no thread has served a second request: req still holds every request made
FirstRequests == served = Cardinality({r \in Threads : req[r].op # "none"})

RECURSIVE SumOver(_, _)
SumOver(f, S) == IF S = {} THEN 0
                 ELSE LET x == CHOOSE y \in S : TRUE IN f[x] + SumOver(f, S \ {x})

\* units of product p held by orders that are not cancelled
Reserved(p) ==
    SumOver([id \in DOMAIN orders |-> orders[id].quantity],
            {id \in DOMAIN orders : orders[id].product_id = p
                                    /\ orders[id].status # "cancelled"})

\* the stock call of a finished request failed, as its caller saw it
CallFailed(r) == req[r].call.phase = "over" /\ req[r].call.status # 200

\* C1: a create_order that returned has either answered 201 with its row
\* written and its decrement applied to the stock, or answered an error with
\* its decrement not applied and no row of its own left.
C1_CreateAllOrNothing ==
    \A r \in Threads :
        Done(r) /\ req[r].op = "create_order" =>
            \/ req[r].code = 201 /\ req[r].oid # 0 /\ req[r].call.applied
            \/ /\ req[r].code # 201
               /\ ~req[r].call.applied
               /\ (req[r].oid # 0 => get_order(req[r].oid) = 404)

\* C2: with no request in flight, the stock of p1 plus the quantities of its
\* orders that are not cancelled is the initial stock.
C2_StockConservation ==
    Quiescent => products["p1"].stock_quantity + Reserved("p1") = InitStock

\* C3: when create_order's decrement call failed after the row was
\* committed, create_order answered 500 and a lookup of the order id finds
\* no row.
C3_CompensationRemovesRow ==
    \A r \in Threads :
        Done(r) /\ req[r].op = "create_order" /\ req[r].oid # 0 /\ CallFailed(r) =>
            req[r].code = 500 /\ get_order(req[r].oid) = 404

\* a create_order whose decrement was committed by the Product Service but
\* whose response timed out, compensated
C3_Witness ==
    \E r \in Threads :
        /\ Done(r) /\ req[r].op = "create_order" /\ req[r].oid # 0
        /\ CallFailed(r) /\ req[r].call.applied /\ req[r].code = 500

\* the direct update_stock requests on p1 made so far
StockRequests == {r \in Threads : req[r].op = "update_stock"}

Change(r) == req[r].data.quantity_change.v

Accepted == {r \in StockRequests : req[r].code = 200}

\* C4: concurrent decrements of a product with InitStock units: the accepted
\* quantities sum to at most InitStock, the others are rejected with 400,
\* and the final stock is InitStock less the accepted sum and not negative.
C4_ConcurrentDecrements ==
    ( /\ FirstRequests /\ Quiescent
      /\ \A r \in StockRequests : /\ req[r].data.product_id = "p1"
                                  /\ req[r].data.quantity_change.t = "int"
                                  /\ Change(r) < 0 )
    => LET taken == 0 - SumOver([r \in Threads |-> Change(r)], Accepted) IN
       /\ taken <= InitStock
       /\ \A r \in StockRequests \ Accepted : req[r].code = 400
       /\ products["p1"].stock_quantity = InitStock - taken
       /\ products["p1"].stock_quantity >= 0

\* the create_order requests of the two threads, both for u1 and p1, neither
\* hit by a network fault
TwoSagas ==
    /\ FirstRequests
    /\ \A r \in Threads :
         /\ Done(r) /\ req[r].op = "create_order"
         /\ create_order_validate(req[r].data) = 0
         /\ req[r].data.user_id = "u1" /\ req[r].data.product_id = "p1"
         /\ req[r].code # 404
         /\ req[r].call.phase = "over" => req[r].call.status # 0

\* C5: two sagas whose quantities each fit the stock but not together: one
\* answers 201, the other an error and leaves no row, and the final stock is
\* the initial stock less the winner's quantity.
C5_OneSagaWins ==
    ( /\ TwoSagas
      /\ \A r \in Threads : Quantity(r) <= InitStock
      /\ SumOver([r \in Threads |-> Quantity(r)], Threads) > InitStock )
    => \E w \in Threads :
         /\ req[w].code = 201
         /\ products["p1"].stock_quantity = InitStock - Quantity(w)
         /\ \A l \in Threads \ {w} :
              /\ req[l].code \in {400, 500}
              /\ (req[l].oid # 0 => get_order(req[l].oid) = 404)

\* C6: after concurrent update_stock requests on p1, the stock is the initial
\* stock plus the quantity_change of every request that answered 200.
C6_NoLostAdjustment ==
    ( /\ FirstRequests /\ Quiescent
      /\ \A r \in StockRequests : req[r].data.product_id = "p1" )
    => products["p1"].stock_quantity
         = InitStock + SumOver([r \in Threads |-> Change(r)], Accepted)

\* C7: an update_stock request that found its product with stock s and has an
\* integer quantity_change d answers non-200 and leaves the stock at s when
\* s + d < 0, and else answers 200 and leaves the stock at s + d.
C7_UpdateStock ==
    [][\A r \in Threads :
         ( /\ req[r].op = "update_stock" /\ ~Done(r) /\ req'[r].pc = "done"
           /\ req[r].data.quantity_change.t = "int"
           /\ req'[r].code # 404 )
         => LET pid == req[r].data.product_id
                s == IF req[r].call.phase = "write" THEN req[r].call.seen
                     ELSE products[pid].stock_quantity
                d == Change(r) IN
            IF s + d < 0
            THEN /\ req'[r].code # 200
                 /\ products[pid].stock_quantity = s
                 /\ products'[pid].stock_quantity = s
            ELSE /\ req'[r].code = 200
                 /\ products'[pid].stock_quantity = s + d]_vars

\* a decrement was accepted and applied, and a later decrement that the
\* remaining stock could not cover was rejected
C7_Witness ==
    \E a, b \in Threads :
        /\ Done(a) /\ req[a].op = "update_stock" /\ req[a].code = 200
        /\ req[a].call.applied /\ Change(a) < 0
        /\ Done(b) /\ req[b].op = "update_stock" /\ req[b].code = 400
        /\ req[b].data.quantity_change.t = "int"
        /\ req[b].data.product_id = req[a].data.product_id
        /\ products[req[b].data.product_id].stock_quantity + Change(b) < 0

\* C8: no product has a negative stock_quantity.
C8_StockNeverNegative ==
    \A p \in DOMAIN products : products[p].stock_quantity >= 0

\* C9: when the restore call of an update_order to 'cancelled' has failed,
\* update_order answers 500 and writes nothing to the orders table.
C9_FailedRestoreKeepsStatus ==
    [][\A r \in Threads :
         ( /\ req[r].op = "update_order" /\ req[r].pc = "uo_restore"
           /\ CallDone(r) /\ ~CallTrue(r) /\ req'[r].pc = "done" )
         => req'[r].code = 500 /\ orders' = orders]_vars

\* an update_order to 'cancelled' answered 500 after its restore call
\* failed, and the order still has the status the request read
C9_Witness ==
    \E r \in Threads :
        /\ Done(r) /\ req[r].op = "update_order" /\ req[r].data.status = "cancelled"
        /\ req[r].nAdj = 1 /\ CallFailed(r) /\ req[r].code = 500
        /\ req[r].oid \in DOMAIN orders
        /\ orders[req[r].oid].status = req[r].seen

\* C10: a successful update_order to 'cancelled' of an order that was not
\* cancelled has issued one stock call of +quantity for the order's product,
\* and the commit of that call raises the product's stock by the quantity.
C10_CancelRestoresQuantity ==
    [][\A r \in Threads :
         /\ ( /\ req[r].op = "update_order" /\ req[r].pc = "uo_restore"
              /\ req[r].call.phase = "write" /\ req'[r].call.phase = "resp" )
            => products'[req[r].call.pid].stock_quantity
                 = products[req[r].call.pid].stock_quantity + PyInt(req[r].call.body).v
         /\ ( /\ req[r].op = "update_order" /\ req[r].pc = "uo_restore"
              /\ req'[r].pc = "done" /\ req'[r].code = 200
              /\ req[r].oid \in DOMAIN orders )
            => /\ req[r].nAdj = 1
               /\ req[r].call.applied
               /\ req[r].call.pid = orders[req[r].oid].product_id
               /\ req[r].call.body = JInt(orders[req[r].oid].quantity)]_vars

\* a step of thread r that moves a request of operation op on
Step(r, op) == req'[r].op = op /\ req'[r] # req[r]

\* the step with which thread r starts to serve a request
Starts(r) == served' # served /\ req'[r] # req[r]

\* a request is answered at once and exactly as the last one of its thread
Repeated == served' # served /\ req' = req

\* r serves an update_order to 'cancelled' that read the order as `status`
Cancel(q, status) ==
    q.op = "update_order" /\ q.data.status = "cancelled" /\ q.seen = status

\* C11: an update_order to 'cancelled' that finds its order already
\* 'cancelled' issues no restore call and none of its steps changes a stock;
\* the second of two successive cancels restores nothing.
C11_CancelIdempotent ==
    [][\A r \in Threads :
         Step(r, "update_order") /\ Cancel(req'[r], "cancelled")
         => /\ req'[r].nAdj = 0
            /\ req'[r].call = NoCall
            /\ products' = products]_vars

\* an order was created, cancelled with its stock restored, and cancelled again
C11_Witness ==
    \E r, s \in Threads :
        /\ r # s /\ Done(r) /\ Done(s) /\ req[r].oid = req[s].oid
        /\ Cancel(req[r], "pending") /\ req[r].code = 200 /\ req[r].call.applied
        /\ Cancel(req[s], "cancelled") /\ req[s].code = 200
        /\ products["p1"].stock_quantity = InitStock

\* C12: confirm_order answers 200 and writes 'confirmed' only when the status
\* it read is 'pending'; when it read any other status it answers 400 and
\* the orders table is left as it was.
C12_ConfirmOnlyPending ==
    [][/\ \A r \in Threads :
         Step(r, "confirm_order")
         => LET q == req'[r] IN
            /\ Starts(r) /\ q.oid \in DOMAIN orders => q.seen = orders[q.oid].status
            /\ q.seen \in valid_statuses \ {"pending"}
               => q.pc = "done" /\ q.code = 400 /\ orders' = orders
            /\ q.code = 200
               => q.seen = "pending" /\ orders'[q.oid].status = "confirmed"
            /\ orders' # orders => q.code = 200
       /\ Repeated => orders' = orders]_vars

\* one confirm_order confirmed the order, a second one was refused
C12_Witness ==
    \E r, s \in Threads :
        /\ r # s /\ Done(r) /\ Done(s) /\ req[r].oid = req[s].oid
        /\ req[r].op = "confirm_order" /\ req[r].code = 200
        /\ req[s].op = "confirm_order" /\ req[s].code = 400 /\ req[s].seen = "confirmed"
        /\ req[s].oid \in DOMAIN orders /\ orders[req[s].oid].status = "confirmed"

C14_DeleteRestoresPendingOnly ==
    [][\A r \in Threads :
         Step(r, "delete_order")
         => LET q == req'[r] IN
            /\ Starts(r) /\ q.seen = "pending"
               => /\ q.pc = "do_restore" /\ q.nAdj = 1
                  /\ q.call = restore_product_stock(orders[q.oid].product_id,
                                                     orders[q.oid].quantity)
                  /\ q.call.body.v > 0
                  /\ orders' = orders
            /\ q.seen = "pending" => q.nAdj = 1
            /\ q.seen = "pending" /\ orders' # orders => CallDone(r)
            /\ q.seen = "cancelled"
               => q.nAdj = 0 /\ q.call = NoCall /\ products' = products]_vars

\* an order was cancelled with its stock restored, then deleted without a call
C14_Witness ==
    \E r, s \in Threads :
        /\ r # s /\ Done(r) /\ Done(s) /\ req[r].oid = req[s].oid
        /\ Cancel(req[r], "pending") /\ req[r].code = 200 /\ req[r].call.applied
        /\ req[s].op = "delete_order" /\ req[s].seen = "cancelled" /\ req[s].code = 200
        /\ req[s].nAdj = 0 /\ req[s].oid \notin DOMAIN orders
        /\ products["p1"].stock_quantity = InitStock

\* C15: an update_order to 'cancelled' or a delete_order of a pending order
\* whose restore call failed never answers with a success status.
C15_CompensationFailureSurfaced ==
    \A r \in Threads :
        /\ Done(r) /\ req[r].op \in {"update_order", "delete_order"}
        /\ req[r].nAdj = 1 /\ CallFailed(r)
        => req[r].code >= 400

\* r is a create_order that answered 201
Created(r) == Done(r) /\ req[r].op = "create_order" /\ req[r].code = 201

InvalidBody(data) ==
    \/ ~data.body
    \/ data.user_id = ""
    \/ data.product_id = ""
    \/ data.quantity.t = "none"
    \/ data.quantity.t \in {"bad", "float"}
    \/ data.quantity.t = "int" /\ data.quantity.v <= 0

\* C17: a create_order whose body is invalid answers 400, has called neither
\* the User Service nor the Product Service and has written no row.
C17_InvalidBodyRejected ==
    \A r \in Threads :
        req[r].op = "create_order" /\ InvalidBody(req[r].data)
        => /\ Done(r) /\ req[r].code = 400
           /\ req[r].nUser = 0 /\ req[r].nProd = 0 /\ req[r].nAdj = 0
           /\ req[r].call = NoCall /\ req[r].oid = 0

\* the user lookup of q got a non-200 answer or no answer
UserMissing(q) == q.op = "create_order" /\ q.lookup \in {"404", "unreachable"}

\* C18: when the user lookup of a create_order got a non-200 answer or none,
\* the request answers 404 with the user_id, has made no product lookup and
\* no stock adjustment, and its step changes neither orders nor stock.
C18_UserMissingAborts ==
    [][\A r \in Threads :
         Step(r, "create_order") /\ UserMissing(req'[r])
         => LET q == req'[r] IN
            /\ q.pc = "done" /\ q.code = 404 /\ q.echo = q.data.user_id
            /\ q.nProd = 0 /\ q.nAdj = 0 /\ q.call = NoCall /\ q.oid = 0
            /\ orders' = orders /\ nextId' = nextId
            /\ products' = products]_vars

\* one request named an unknown user, one could not reach the User Service
C18_Witness ==
    \E r, s \in Threads :
        /\ Done(r) /\ req[r].op = "create_order" /\ req[r].lookup = "404"
        /\ req[r].code = 404 /\ req[r].echo = "u0"
        /\ Done(s) /\ req[s].op = "create_order" /\ req[s].lookup = "unreachable"
        /\ req[s].code = 404 /\ req[s].echo = "u1"
        /\ orders = <<>> /\ products["p1"].stock_quantity = InitStock

\* the product lookup of q found no product
ProductMissing(q) == q.pc = "done" /\ q.nProd = 1 /\ q.code = 404

\* the snapshot of q has less stock than q asks for
SnapshotShort(q) ==
    /\ q.nProd = 1 /\ ~ProductMissing(q)
    /\ q.snap.stock_quantity < PyInt(q.data.quantity).v

\* q has failed in the validation or in STEP 1, 2 or 3
FailedEarly(q) ==
    /\ q.op = "create_order"
    /\ \/ create_order_validate(q.data) # 0
       \/ UserMissing(q)
       \/ ProductMissing(q)
       \/ SnapshotShort(q)

\* C19: a create_order that failed in the validation, the user lookup, the
\* product lookup or the stock check has answered 400 or 404, has written no
\* row and sent no stock adjustment, and none of its steps changed the orders
\* table or a stock.
C19_EarlyFailureLeavesNothing ==
    [][/\ \A r \in Threads :
         Step(r, "create_order") /\ FailedEarly(req'[r])
         => LET q == req'[r] IN
            /\ q.pc = "done" /\ q.code \in {400, 404}
            /\ q.oid = 0 /\ q.nAdj = 0 /\ q.call = NoCall
            /\ orders' = orders /\ nextId' = nextId
            /\ products' = products
       /\ Repeated => orders' = orders /\ nextId' = nextId /\ products' = products]_vars

\* the same request has failed the stock check twice and left the one
\* order and the stock as they were
C19_Witness ==
    \E r, s \in Threads :
        /\ r # s
        /\ Done(r) /\ FailedEarly(req[r]) /\ SnapshotShort(req[r]) /\ req[r].code = 400
        /\ Done(s) /\ FailedEarly(req[s]) /\ SnapshotShort(req[s]) /\ req[s].code = 400
        /\ req[r].data = req[s].data
        /\ Cardinality(DOMAIN orders) = 1
        /\ products["p1"].stock_quantity = InitStock - MaxQty

\* C20: no step changes the quantity, the total_price, the user or the
\* product of an order that stays in the table; a step of confirm_order or
\* update_order removes and adds no row and leaves every order but its
\* target as it was.
C20_OnlyStatusChanges ==
    [][/\ \A id \in DOMAIN orders \cap DOMAIN orders' :
            orders'[id] = [orders[id] EXCEPT !.status = orders'[id].status,
                                             !.restored = orders'[id].restored]
       /\ \A r \in Threads :
            Step(r, "confirm_order") \/ Step(r, "update_order")
            => /\ DOMAIN orders' = DOMAIN orders
               /\ \A id \in DOMAIN orders \ {req'[r].oid} : orders'[id] = orders[id]]_vars

\* of two orders one had its status changed and the other is still pending
C20_Witness ==
    \E r \in Threads, id \in DOMAIN orders :
        /\ Done(r) /\ req[r].op \in {"confirm_order", "update_order"} /\ req[r].code = 200
        /\ req[r].oid \in DOMAIN orders /\ req[r].oid # id
        /\ orders[req[r].oid].status # "pending"
        /\ orders[id].status = "pending"

\* C21: an update_order whose status value is not one of valid_statuses, or
\* whose body has no status, is answered 400 when its order exists, with no
\* call sent and the orders table and the stocks left as they were; an
\* update_order of an id without a row is answered 404.
C21_InvalidUpdateRejected ==
    [][/\ \A r \in Threads :
            Step(r, "update_order")
            => LET q == req'[r] IN
               /\ Starts(r) /\ q.oid \notin DOMAIN orders
                  => q.pc = "done" /\ q.code = 404
               /\ Starts(r) /\ q.oid \in DOMAIN orders /\ q.data.status \notin valid_statuses
                  => q.pc = "done" /\ q.code = 400
               /\ q.data.status \notin valid_statuses
                  => /\ q.pc = "done" /\ q.code \in {400, 404}
                     /\ q.nAdj = 0 /\ q.call = NoCall
                     /\ orders' = orders /\ products' = products
       /\ Repeated => orders' = orders /\ products' = products]_vars

\* an unknown status for an order was refused and the order is still
\* pending; an update of an id without a row was answered 404
C21_Witness ==
    \E r, s \in Threads :
        /\ Done(r) /\ req[r].op = "update_order" /\ req[r].data.status = "refunded"
        /\ req[r].code = 400 /\ req[r].nAdj = 0
        /\ req[r].oid \in DOMAIN orders /\ orders[req[r].oid].status = "pending"
        /\ Done(s) /\ req[s].op = "update_order" /\ req[s].code = 404
        /\ req[s].oid \notin DOMAIN orders

\* C22: a create_order during which a commit raised, that of the new row or
\* that of the compensating delete, has answered 500 and has left no row of
\* its own in the orders table.
C22_DbFailureLeavesNoRow ==
    \A r \in Threads :
        Done(r) /\ req[r].op = "create_order" /\ req[r].db # ""
        => req[r].code = 500 /\ get_order(req[r].oid) = 404

\* C23: in every create_order the product lookup comes after a user lookup
\* that found the user, the row is written, as 'pending', after a product
\* lookup whose snapshot holds the quantity, the decrement is sent only
\* once the row is there, and no step before the row is written changes the
\* orders table or a stock.
C23_StepsInOrder ==
    [][\A r \in Threads :
         Step(r, "create_order")
         => LET q == req'[r] IN
            /\ q.nProd = 1 => q.nUser = 1 /\ q.lookup = "200"
            /\ q.pc = "co_persist" \/ q.oid # 0
               => /\ q.nProd = 1
                  /\ q.snap.stock_quantity >= PyInt(q.data.quantity).v
            /\ q.nAdj = 1 \/ q.call # NoCall => q.oid # 0
            /\ req[r].oid = 0 /\ q.oid # 0
               => /\ req[r].pc = "co_persist" /\ req[r].call = NoCall
                  /\ q.oid \notin DOMAIN orders
                  /\ orders' = orders @@ (q.oid :> orders'[q.oid])
                  /\ orders'[q.oid].status = "pending"
                  /\ q.call = reduce_product_stock(q.data.product_id, orders'[q.oid].quantity)
            /\ q.oid = 0
               => orders' = orders /\ nextId' = nextId /\ products' = products]_vars

\* a create_order went through all its steps
C23_Witness ==
    \E r \in Threads :
        /\ Created(r) /\ req[r].nUser = 1 /\ req[r].nProd = 1 /\ req[r].nAdj = 1
        /\ req[r].call.applied
        /\ req[r].oid \in DOMAIN orders /\ orders[req[r].oid].status = "pending"
        /\ products["p1"].stock_quantity = InitStock - orders[req[r].oid].quantity

\* C24: within one request the user lookup, the product lookup and the stock
\* adjustment are each sent at most once, also when the adjustment failed
\* or timed out; a request whose call is over makes no other call.
C24_NoRetry ==
    \A r \in Threads :
        /\ req[r].nUser <= 1 /\ req[r].nProd <= 1 /\ req[r].nAdj <= 1
        /\ req[r].nAdj = (IF req[r].call = NoCall THEN 0 ELSE 1)
        /\ req[r].op \in {"none", "confirm_order"} => req[r].nAdj = 0
        /\ req[r].op # "create_order" => req[r].nUser = 0 /\ req[r].nProd = 0

\* a decrement was committed by the Product Service, its response timed out,
\* and create_order gave up after that one call
C24_Witness ==
    \E r \in Threads :
        /\ Done(r) /\ req[r].op = "create_order" /\ req[r].code = 500
        /\ CallFailed(r) /\ req[r].call.status = 0 /\ req[r].call.applied
        /\ req[r].nUser = 1 /\ req[r].nProd = 1 /\ req[r].nAdj = 1

\* C25: every create_order that is being served returns a response.
C25_CreateReturns ==
    \A r \in Threads :
        (req[r].op = "create_order" /\ ~Done(r)) ~> Done(r)

\* both threads have returned from a create_order, one with 201 and one
\* with 500 after it had written its row
C25_Witness ==
    \E r, s \in Threads :
        /\ Created(r)
        /\ Done(s) /\ req[s].op = "create_order" /\ req[s].code = 500 /\ req[s].oid # 0

\* C26: when the requests on an order come one after another, at most one
\* restore call for the order returns success.
C26_RestoredAtMostOnce ==
    \A id \in DOMAIN orders : orders[id].restored <= 1

\* q has returned 200 from a cancel or a delete that read its order as not
\* cancelled and whose restore was committed by the Product Service
Restored(q) ==
    /\ q.pc = "done" /\ q.code = 200
    /\ \/ q.op = "update_order" /\ q.data.status = "cancelled"
       \/ q.op = "delete_order"
    /\ q.seen \in valid_statuses \ {"cancelled"}
    /\ q.nAdj = 1 /\ q.call.status = 200 /\ q.call.applied

\* C27: when two requests that each restore the stock of the same order,
\* read as not cancelled by both, have returned, the stock of the product
\* has been raised by the quantity at most once: it is not above the
\* initial stock.
C27_ConcurrentRestoreOnce ==
    \A r, s \in Threads :
        r # s /\ Restored(req[r]) /\ Restored(req[s]) /\ req[r].oid = req[s].oid
        => products[req[r].call.pid].stock_quantity <= InitStock

\* C28: when a confirm_order and an update_order to 'cancelled' of the same
\* order have both returned 200, the order is not 'confirmed' with its
\* quantity restored to the stock.
C28_ConfirmCancelRace ==
    \A r, s \in Threads :
        /\ Done(r) /\ req[r].op = "confirm_order" /\ req[r].code = 200
        /\ Restored(req[s]) /\ req[s].op = "update_order"
        /\ req[r].oid = req[s].oid /\ req[r].oid \in DOMAIN orders
        => orders[req[r].oid].status # "confirmed"

\* C29: the stock of a product is never above its initial stock.
C29_StockAtMostInitial ==
    \A p \in DOMAIN products : products[p].stock_quantity <= InitStock

\* C30: an order is stored as 'cancelled' only when a restore call for it
\* has returned success.
C30_CancelledAfterRestore ==
    \A id \in DOMAIN orders :
        orders[id].status = "cancelled" => orders[id].restored >= 1

\* an order is cancelled, the restore of its cancel having succeeded
C30_Witness ==
    \E r \in Threads :
        /\ Restored(req[r]) /\ req[r].op = "update_order"
        /\ req[r].oid \in DOMAIN orders
        /\ orders[req[r].oid].status = "cancelled"
        /\ orders[req[r].oid].restored = 1

\* a confirm_order, or an update_order to a status other than 'cancelled'
Quiet(q) ==
    \/ q.op = "confirm_order"
    \/ q.op = "update_order" /\ q.data.status # "cancelled"

\* C31: a confirm_order, or an update_order whose target status is not
\* 'cancelled', has sent no call to the Product Service, and every step that
\* changes a product is a step of some other request; no step of any Order
\* Service request changes the users.
C31_FrameEffects ==
    [][/\ users' = users
       /\ \A r \in Threads :
            Quiet(req'[r])
            => req'[r].nProd = 0 /\ req'[r].nAdj = 0 /\ req'[r].call = NoCall
       /\ products' # products
          => /\ \E r \in Threads : req'[r] # req[r]
             /\ \A r \in Threads : req'[r] # req[r] => ~Quiet(req'[r])]_vars

\* an order below the initial stock was confirmed and then moved to a status
\* other than 'cancelled', both with 200, the stock still reserved and the
\* user that the create_order looked up still there
C31_Witness ==
    \E r, s \in Threads :
        /\ Done(r) /\ req[r].op = "confirm_order" /\ req[r].code = 200
        /\ Done(s) /\ req[s].op = "update_order" /\ req[s].code = 200
        /\ req[s].data.status \notin {"cancelled", "confirmed"}
        /\ req[s].seen = "confirmed" /\ req[s].oid = req[r].oid
        /\ req[r].oid \in DOMAIN orders
        /\ orders[req[r].oid].user_id \in users
        /\ products[orders[req[r].oid].product_id].stock_quantity
              = InitStock - orders[req[r].oid].quantity

====
